---- MODULE Spec2Model ----
(***************************************************************************)
(* A model of the ONVIF client of korylprince/go-onvif: the AuthMode        *)
(* negotiation of Client.Do and the fault classifier it relies on.          *)
(*                                                                          *)
(* One call to Client.Do is a sequence of attempts.  An attempt is the      *)
(* code from the entry of Do to the POST (Build) followed by the code from  *)
(* the return of HTTPClient.Do to the return of Do or to the recursive      *)
(* call c.Do(r) (Receive).  A "request" is one invocation of                *)
(* c.HTTPClient.Do; what the transport does underneath it is not modelled.  *)
(***************************************************************************)
EXTENDS Integers, Sequences, FiniteSets, TLC

VARIABLES
    AuthMode,    \* Client.AuthMode
    Username,    \* Client.Username
    Password,    \* Client.Password
    HTTPClient,  \* Client.HTTPClient (and its Transport)
    Debug,       \* Client.Debug
    pc,          \* "idle": no call in progress; "enter": at the entry of Do;
                 \* "waiting": the POST is in flight
    r,           \* the *Request of the call in progress
    reqs,        \* the requests this call has sent, in order
    resps,       \* the outcomes of c.HTTPClient.Do this call has seen, in order
    retries,     \* the retry paths this call has taken, in order
    result,      \* what the last call returned
    entry,       \* AuthMode and HTTPClient when the call was made
    attempt,     \* AuthMode and HTTPClient when the current attempt entered Do
    calls,       \* number of calls made on the Client
    nonces,      \* number of Security blocks NewSecurity has built
    installs,    \* number of times Do has assigned a new digest.Transport to
                 \* c.HTTPClient.Transport
    soapOp,      \* package soap, called on its own: the function last called,
    soapIn,      \* its argument,
    soapOut,     \* and what it returned
    procs,       \* calls of Do that overlap on one Client: where each is
    hist         \* what those calls have done to the Client so far

vars == <<AuthMode, Username, Password, HTTPClient, Debug, pc, r, reqs, resps,
          retries, result, entry, attempt, calls, nonces, installs,
          soapOp, soapIn, soapOut, procs, hist>>

soapVars == <<soapOp, soapIn, soapOut>>

sharedVars == <<procs, hist>>

clientVars == <<AuthMode, Username, Password, HTTPClient, Debug>>

-----------------------------------------------------------------------------
(* Bounds of the model *)

\* calls made on one Client
MaxCalls == 2

-----------------------------------------------------------------------------
(* Constants of the program *)

AuthModeNone == 0
AuthModeDigest == 1
AuthModeWSSecurity == 2
\* an AuthMode outside the three declared ones (AuthMode is an int)
AuthModeInvalid == 3

AuthModes == {AuthModeNone, AuthModeDigest, AuthModeWSSecurity, AuthModeInvalid}

NamespaceEnvelope == "http://www.w3.org/2003/05/soap-envelope"
NamespaceONVIFError == "http://www.onvif.org/ver10/error"

-----------------------------------------------------------------------------
(* soap.Fault and Fault.IsUnauthorizedError *)

\* A namespace table is a Go map: a set of <<prefix, uri>> pairs with distinct
\* prefixes.  Ranging over a map visits its entries in an unspecified order.
Orders(S) ==
    {s \in [1..Cardinality(S) -> S] : \A i, j \in 1..Cardinality(S) : i # j => s[i] # s[j]}

\* The loop of IsUnauthorizedError over the entries in the order `order`:
\* the last entry of each namespace visited decides the prefix.
RECURSIVE PrefixScan(_, _, _, _)
PrefixScan(order, i, soapPrefix, errPrefix) ==
    IF i > Len(order) THEN <<soapPrefix, errPrefix>>
    ELSE LET prefix == order[i][1]
             ns == order[i][2]
         IN  IF ns = NamespaceEnvelope
             THEN PrefixScan(order, i + 1, prefix \o ":", errPrefix)
             ELSE IF ns = NamespaceONVIFError
             THEN PrefixScan(order, i + 1, soapPrefix, prefix \o ":")
             ELSE PrefixScan(order, i + 1, soapPrefix, errPrefix)

\* mutant of IsUnauthorizedErrorIn: the fault is classified by its Reason text
IsUnauthorizedErrorIn_ByReason(f, order) ==
    f.Reason = "Sender not authorized"

\* The result of IsUnauthorizedError when the table is visited in `order`.
IsUnauthorizedErrorIn(f, order) ==
    LET p == PrefixScan(order, 1, "", "")
    IN  f.Code = p[1] \o "Sender" /\ f.SubCode = p[2] \o "NotAuthorized"

\* The results IsUnauthorizedError can return for f, over every visiting order.
IsUnauthorizedError(f) ==
    {IsUnauthorizedErrorIn(f, o) : o \in Orders(f.Namespaces)}

NoNamespaces == {}
NsStandard == {<<"soapenv", NamespaceEnvelope>>, <<"ter", NamespaceONVIFError>>}
NsTwoEnvelope ==
    {<<"s", NamespaceEnvelope>>, <<"env", NamespaceEnvelope>>, <<"ter", NamespaceONVIFError>>}

\* Body.Fault == nil
NoFault ==
    [present |-> FALSE, Code |-> "", SubCode |-> "", Reason |-> "", Namespaces |-> NoNamespaces]

FaultNotAuthorized ==
    [present |-> TRUE, Code |-> "soapenv:Sender", SubCode |-> "ter:NotAuthorized",
     Reason |-> "Sender not authorized", Namespaces |-> NsStandard]
FaultReceiver ==
    [present |-> TRUE, Code |-> "soapenv:Receiver", SubCode |-> "ter:NotAuthorized",
     Reason |-> "Sender not authorized", Namespaces |-> NsStandard]
FaultNoPrefix ==
    [present |-> TRUE, Code |-> "Sender", SubCode |-> "NotAuthorized",
     Reason |-> "", Namespaces |-> NoNamespaces]
FaultTwoPrefixes ==
    [present |-> TRUE, Code |-> "s:Sender", SubCode |-> "ter:NotAuthorized",
     Reason |-> "", Namespaces |-> NsTwoEnvelope]

\* the faults a device answers with in this model
Faults == {FaultNotAuthorized, FaultReceiver, FaultNoPrefix, FaultTwoPrefixes}

-----------------------------------------------------------------------------
(* Requests and responses *)

\* A *Request, by what the code can observe of it: whether xml.Marshal(r.Body)
\* succeeds, whether the envelope encodes, whether http.NewRequest accepts r.URL.
Requests ==
    {[bodyOK |-> TRUE,  envOK |-> TRUE,  urlOK |-> TRUE],
     [bodyOK |-> FALSE, envOK |-> TRUE,  urlOK |-> TRUE],
     [bodyOK |-> TRUE,  envOK |-> FALSE, urlOK |-> TRUE],
     [bodyOK |-> TRUE,  envOK |-> TRUE,  urlOK |-> FALSE]}

NoRequest == [bodyOK |-> FALSE, envOK |-> FALSE, urlOK |-> FALSE]

\* What the bytes of a response body decode to: valid is whether
\* xml.Decoder.Decode(env) succeeds, fault is env.Body.Fault, payload tells
\* fault-free envelopes apart.
NoBody == [valid |-> FALSE, fault |-> NoFault, payload |-> 0]

Bodies ==
    {NoBody}
    \cup {[valid |-> TRUE, fault |-> NoFault, payload |-> p] : p \in {1, 2}}
    \cup {[valid |-> TRUE, fault |-> f, payload |-> 0] : f \in Faults}

\* What c.HTTPClient.Do returns: err (a transport error, no response), or a
\* response with its status (401 or not), whether reading its body to the end
\* succeeds, and its body.
Responses ==
    {[err |-> TRUE, status401 |-> FALSE, readable |-> FALSE, body |-> NoBody]}
    \cup [err : {FALSE}, status401 : BOOLEAN, readable : BOOLEAN, body : Bodies]

-----------------------------------------------------------------------------
(* http.Client and its Transport *)

\* Transport == nil: http.DefaultTransport is used
NoTransport == [kind |-> "nil", inner |-> "nil", seeded |-> FALSE]
\* a RoundTripper the caller supplied that is not a *digest.Transport
CustomTransport == [kind |-> "custom", inner |-> "nil", seeded |-> FALSE]
\* a *digest.Transport the caller supplied around its own RoundTripper
CallerDigestTransport == [kind |-> "digest", inner |-> "custom", seeded |-> FALSE]
\* &digest.Transport{Username, Password} of the Build step
FreshDigestTransport == [kind |-> "digest", inner |-> "nil", seeded |-> FALSE]
\* the digest.Transport of the 401 step: the 401 replayed into it, Transport = nil
SeededDigestTransport == [kind |-> "digest", inner |-> "nil", seeded |-> TRUE]

NilClient == [isNil |-> TRUE, Transport |-> NoTransport]
ClientWith(t) == [isNil |-> FALSE, Transport |-> t]

\* _, ok := c.HTTPClient.Transport.(*digest.Transport)
IsDigestTransport(t) == t.kind = "digest"

-----------------------------------------------------------------------------
(* Results of Do *)

NoResult == [returned |-> FALSE, env |-> FALSE, err |-> "nil", wraps |-> "none",
             body |-> NoBody, from |-> 0]

\* mutant of ReturnEnvelope: the envelope is dropped on the way out
ReturnEnvelope_Nil(b, n) ==
    [returned |-> TRUE, env |-> FALSE, err |-> "nil", wraps |-> "none", body |-> NoBody,
     from |-> n]

\* return env, nil
ReturnEnvelope(b, n) ==
    [returned |-> TRUE, env |-> TRUE, err |-> "nil", wraps |-> "none", body |-> b, from |-> n]

\* return nil, fmt.Errorf(...)
ReturnError(kind, n) ==
    [returned |-> TRUE, env |-> FALSE, err |-> kind, wraps |-> "none", body |-> NoBody,
     from |-> n]

\* return nil, &soap.UnauthorizedError{Err: errors.New(soapResp.Status)}
ReturnUnauthorizedStatus(n) ==
    [returned |-> TRUE, env |-> FALSE, err |-> "unauthorized", wraps |-> "status",
     body |-> NoBody, from |-> n]

\* mutant of ReturnUnauthorizedFault: the Fault is returned without the wrapper
ReturnUnauthorizedFault_Unwrapped(b, n) ==
    [returned |-> TRUE, env |-> FALSE, err |-> "fault", wraps |-> "none", body |-> b,
     from |-> n]

\* return nil, &soap.UnauthorizedError{Err: env.Body.Fault}
ReturnUnauthorizedFault(b, n) ==
    [returned |-> TRUE, env |-> FALSE, err |-> "unauthorized", wraps |-> "fault",
     body |-> b, from |-> n]

\* mutant of ReturnFault: the envelope is returned with its Fault
ReturnFault_AsEnvelope(b, n) ==
    [returned |-> TRUE, env |-> TRUE, err |-> "nil", wraps |-> "none", body |-> b, from |-> n]

\* return nil, env.Body.Fault
ReturnFault(b, n) ==
    [returned |-> TRUE, env |-> FALSE, err |-> "fault", wraps |-> "none", body |-> b,
     from |-> n]

-----------------------------------------------------------------------------
(* Client.Do *)

\* c.Username != "" && c.Password != ""
CredsSet == Username # "" /\ Password # ""

\* mutant of NeedsSecurity: a Security header whenever credentials are set
NeedsSecurity_AnyMode == CredsSet

\* mutant of NeedsSecurity: the credentials are not looked at
NeedsSecurity_NoCreds == AuthMode = AuthModeWSSecurity

\* case AuthModeWSSecurity of the switch: a Security header is built
NeedsSecurity == CredsSet /\ AuthMode = AuthModeWSSecurity

\* default case of the switch
InvalidSecurityType ==
    CredsSet /\ AuthMode \notin {AuthModeNone, AuthModeWSSecurity, AuthModeDigest}

\* mutant of InstallsOnBuild: the wrapper is installed whatever the AuthMode
InstallsOnBuild_AnyMode(client) ==
    CredsSet /\ ~IsDigestTransport(client.Transport)

\* mutant of InstallsOnBuild: the Digest case of the switch does nothing
InstallsOnBuild_Never(client) == FALSE

\* mutant of InstallsOnBuild: the type of the installed transport is not looked at
InstallsOnBuild_NoTypeCheck(client) == CredsSet /\ AuthMode = AuthModeDigest

\* case AuthModeDigest of the switch installs a digest.Transport
InstallsOnBuild(client) ==
    CredsSet /\ AuthMode = AuthModeDigest /\ ~IsDigestTransport(client.Transport)

\* mutant of EscalatesToDigest: the AuthMode is not looked at
EscalatesToDigest_NoModeCheck == CredsSet

\* the guard of the digest escalation on HTTP 401
EscalatesToDigest == AuthMode # AuthModeDigest /\ CredsSet

\* mutant of EscalatesToWSSecurity: the AuthMode is not looked at
EscalatesToWSSecurity_NoModeCheck == CredsSet

\* mutant of EscalatesToWSSecurity: the guard of the digest escalation, with
\* the other mode
EscalatesToWSSecurity_NotAlready == AuthMode # AuthModeWSSecurity /\ CredsSet

\* the guard of the WS-Security escalation on an unauthorized fault
EscalatesToWSSecurity == AuthMode = AuthModeNone /\ CredsSet

\* mutant of ModeAfter401: the assignment is missing
ModeAfter401_Unchanged == AuthMode

\* mutant of ModeAfter401: the other mode is assigned
ModeAfter401_WSSecurity == AuthModeWSSecurity

\* the AuthMode the 401 escalation sets
ModeAfter401 == AuthModeDigest

\* mutant of ModeAfterFault: the other mode is assigned
ModeAfterFault_Digest == AuthModeDigest

\* the AuthMode the unauthorized-fault escalation sets
ModeAfterFault == AuthModeWSSecurity

\* the 401 escalation installs a digest.Transport
InstallsOn401(t) == ~IsDigestTransport(t)

\* the transport left by the 401 escalation
TransportAfter401(t) == IF InstallsOn401(t) THEN SeededDigestTransport ELSE t

\* Do returns res: the call is over and the Client is idle again.
Return(res) ==
    /\ pc' = "idle"
    /\ result' = res

\* return c.Do(r): the nested call starts at the entry of Do, and what it
\* returns is returned unchanged.
Recurse(path) ==
    /\ pc' = "enter"
    /\ retries' = Append(retries, path)
    /\ UNCHANGED result

\* mutant of FreshSecurity: the Security built first is kept and used again
FreshSecurity_Cached ==
    IF nonces = 0
    THEN [nonce |-> 1, invocations |-> 1]
    ELSE [nonce |-> nonces, invocations |-> nonces]

\* s, err = soap.NewSecurity(c.Username, c.Password): one more invocation,
\* whose rand.Read yields a nonce no invocation before it has yielded (the
\* nonces are numbered in the order they are drawn)
FreshSecurity == [nonce |-> nonces + 1, invocations |-> nonces + 1]

\* The caller invokes c.Do(r) on an idle Client.
Call ==
    /\ pc = "idle"
    /\ calls < MaxCalls
    /\ \E req \in Requests : r' = req
    /\ pc' = "enter"
    /\ calls' = calls + 1
    /\ reqs' = <<>>
    /\ resps' = <<>>
    /\ retries' = <<>>
    /\ result' = NoResult
    /\ entry' = [mode |-> AuthMode, client |-> HTTPClient]
    /\ UNCHANGED <<clientVars, attempt, nonces, installs, soapVars, sharedVars>>

\* From the entry of Do to c.HTTPClient.Do(httpReq).
Build ==
    /\ pc = "enter"
    /\ attempt' = [mode |-> AuthMode, client |-> HTTPClient]
    /\ LET client == IF HTTPClient.isNil THEN ClientWith(NoTransport) ELSE HTTPClient
           installed == IF InstallsOnBuild(client)
                        THEN ClientWith(FreshDigestTransport) ELSE client
       IN  \E randOK \in (IF NeedsSecurity THEN BOOLEAN ELSE {TRUE}) :
             IF InvalidSecurityType
             THEN /\ Return(ReturnError("invalid", Len(resps)))
                  /\ HTTPClient' = client
                  /\ UNCHANGED <<reqs, nonces, installs>>
             ELSE IF NeedsSecurity /\ ~randOK
             THEN /\ Return(ReturnError("security", Len(resps)))
                  /\ HTTPClient' = client
                  /\ UNCHANGED <<reqs, nonces, installs>>
             ELSE /\ HTTPClient' = installed
                  /\ installs' = IF InstallsOnBuild(client) THEN installs + 1 ELSE installs
                  /\ nonces' = IF NeedsSecurity THEN FreshSecurity.invocations ELSE nonces
                  /\ IF ~r.bodyOK
                     THEN Return(ReturnError("marshal", Len(resps))) /\ UNCHANGED reqs
                     ELSE IF ~r.envOK
                     THEN Return(ReturnError("encode", Len(resps))) /\ UNCHANGED reqs
                     ELSE IF ~r.urlOK
                     THEN Return(ReturnError("newrequest", Len(resps))) /\ UNCHANGED reqs
                     ELSE /\ reqs' = Append(reqs,
                                 [mode |-> AuthMode,
                                  security |-> NeedsSecurity,
                                  nonce |-> IF NeedsSecurity THEN FreshSecurity.nonce ELSE 0,
                                  transport |-> installed.Transport])
                          /\ pc' = "waiting"
                          /\ UNCHANGED result
    /\ UNCHANGED <<AuthMode, Username, Password, Debug, r, resps, retries, entry, calls,
                   soapVars, sharedVars>>

\* What the attempt makes of the response: whether the envelope was decoded
\* and whether the classifier reported its fault unauthorized.
Outcome(resp, decoded, unauth) ==
    [err |-> resp.err, status401 |-> resp.status401, readable |-> resp.readable,
     body |-> resp.body, decoded |-> decoded, unauth |-> unauth]

\* From the return of c.HTTPClient.Do to the return of Do or to c.Do(r).
Receive ==
    /\ pc = "waiting"
    /\ \E resp \in Responses :
        LET n == Len(resps) + 1
        IN
        IF resp.err
        THEN \* could not POST request
             /\ resps' = Append(resps, Outcome(resp, FALSE, FALSE))
             /\ Return(ReturnError("post", n))
             /\ UNCHANGED <<AuthMode, HTTPClient, retries, installs>>
        ELSE IF Debug /\ ~resp.readable
        THEN \* could not read response body
             /\ resps' = Append(resps, Outcome(resp, FALSE, FALSE))
             /\ Return(ReturnError("read", n))
             /\ UNCHANGED <<AuthMode, HTTPClient, retries, installs>>
        ELSE IF resp.status401
        THEN \* check for digest auth error
             /\ resps' = Append(resps, Outcome(resp, FALSE, FALSE))
             /\ IF EscalatesToDigest
                THEN /\ AuthMode' = ModeAfter401
                     /\ HTTPClient' = ClientWith(TransportAfter401(HTTPClient.Transport))
                     /\ installs' = IF InstallsOn401(HTTPClient.Transport)
                                    THEN installs + 1 ELSE installs
                     /\ Recurse("401")
                ELSE /\ Return(ReturnUnauthorizedStatus(n))
                     /\ UNCHANGED <<AuthMode, HTTPClient, retries, installs>>
        ELSE IF ~resp.body.valid
        THEN \* could not decode response
             /\ resps' = Append(resps, Outcome(resp, FALSE, FALSE))
             /\ Return(ReturnError("decode", n))
             /\ UNCHANGED <<AuthMode, HTTPClient, retries, installs>>
        ELSE IF resp.body.fault.present
        THEN \* check for soap fault
             \E unauth \in IsUnauthorizedError(resp.body.fault) :
               /\ resps' = Append(resps, Outcome(resp, TRUE, unauth))
               /\ UNCHANGED <<HTTPClient, installs>>
               /\ IF unauth
                  THEN IF EscalatesToWSSecurity
                       THEN /\ AuthMode' = ModeAfterFault
                            /\ Recurse("fault")
                       ELSE /\ Return(ReturnUnauthorizedFault(resp.body, n))
                            /\ UNCHANGED <<AuthMode, retries>>
                  ELSE /\ Return(ReturnFault(resp.body, n))
                       /\ UNCHANGED <<AuthMode, retries>>
        ELSE /\ resps' = Append(resps, Outcome(resp, TRUE, FALSE))
             /\ Return(ReturnEnvelope(resp.body, n))
             /\ UNCHANGED <<AuthMode, HTTPClient, retries, installs>>
    /\ UNCHANGED <<Username, Password, Debug, r, reqs, entry, attempt, calls, nonces,
                   soapVars, sharedVars>>

\* the goroutines that call Do on one Client
NProcs == 2
Procs == 1..NProcs

\* what overlapping calls have done: whether the Client is still used by one
\* goroutine ("solo") or by all ("shared"), whether a call made alone has
\* returned, the AuthMode when the Client was shared, the number of
\* assignments to c.AuthMode, the calls that assigned c.AuthMode after
\* another call had tested it and before that call assigned it, the calls
\* that assigned a digest.Transport, and whether one of them replaced the
\* digest.Transport of another
History(phase, mode) ==
    [phase |-> phase, soloDone |-> FALSE, exposed |-> mode, modeWrites |-> 0,
     racedMode |-> {}, installers |-> {}, overwrote |-> FALSE]

\* no call is in progress on a shared Client
NoSharing ==
    /\ procs = [p \in Procs |-> "idle"]
    /\ hist = History("solo", AuthModeNone)

\* package soap has not been called on its own
NoSoapCall ==
    /\ soapOp = "none"
    /\ soapIn = <<>>
    /\ soapOut = <<>>

Init ==
    /\ AuthMode \in AuthModes
    /\ Username \in {"", "admin"}
    /\ Password \in {"", "secret"}
    /\ HTTPClient \in {NilClient, ClientWith(NoTransport), ClientWith(CustomTransport),
                       ClientWith(CallerDigestTransport)}
    /\ Debug \in BOOLEAN
    /\ pc = "idle"
    /\ r = NoRequest
    /\ reqs = <<>>
    /\ resps = <<>>
    /\ retries = <<>>
    /\ result = NoResult
    /\ entry = [mode |-> AuthMode, client |-> HTTPClient]
    /\ attempt = [mode |-> AuthMode, client |-> HTTPClient]
    /\ calls = 0
    /\ nonces = 0
    /\ installs = 0
    /\ NoSoapCall
    /\ NoSharing

Next == Call \/ Build \/ Receive

Spec == Init /\ [][Next]_vars

-----------------------------------------------------------------------------
(* Package soap called on its own: Fault.IsUnauthorizedError *)

NamespaceDevice == "http://www.onvif.org/ver10/device/wsdl"

\* the prefixes and namespaces of the tables the classifier is called with
TablePrefixes == {"soapenv", "s", "ter"}
TableURIs == {NamespaceEnvelope, NamespaceONVIFError, NamespaceDevice}

\* every Go map from some of the prefixes to the namespaces
Tables ==
    {t \in SUBSET (TablePrefixes \X TableURIs) :
        \A a, b \in t : a[1] = b[1] => a = b}

\* the faults the classifier is called with
ClassifiedFaults ==
    [present : {TRUE},
     Code : {"soapenv:Sender", "s:Sender", "Sender", "soapenv:Receiver"},
     SubCode : {"ter:NotAuthorized", "NotAuthorized", "ter:ActionNotSupported"},
     Reason : {"", "Sender not authorized"},
     Namespaces : Tables]

\* the state of package soap before any of its functions is called
SoapInit ==
    /\ AuthMode = AuthModeNone
    /\ Username = ""
    /\ Password = ""
    /\ HTTPClient = NilClient
    /\ Debug = FALSE
    /\ pc = "idle"
    /\ r = NoRequest
    /\ reqs = <<>>
    /\ resps = <<>>
    /\ retries = <<>>
    /\ result = NoResult
    /\ entry = [mode |-> AuthMode, client |-> HTTPClient]
    /\ attempt = [mode |-> AuthMode, client |-> HTTPClient]
    /\ calls = 0
    /\ nonces = 0
    /\ installs = 0
    /\ NoSoapCall
    /\ NoSharing

doVars == <<AuthMode, Username, Password, HTTPClient, Debug, pc, r, reqs, resps,
            retries, result, entry, attempt, calls, nonces, installs, procs, hist>>

\* f.IsUnauthorizedError() on a fault f, the range over f.Namespaces visiting
\* the entries in some order
Classify ==
    /\ soapOp = "none"
    /\ \E f \in ClassifiedFaults : \E order \in Orders(f.Namespaces) :
         /\ soapOp' = "IsUnauthorizedError"
         /\ soapIn' = [fault |-> f, order |-> order]
         /\ soapOut' = IsUnauthorizedErrorIn(f, order)
    /\ UNCHANGED doVars

-----------------------------------------------------------------------------
(* Package soap called on its own: Envelope.UnmarshalXML and MarshalXML *)

\* tokens between the root start element and its end, in a decoded stream
MaxTokens == 2

\* namespace bindings of an envelope that is encoded
MaxBindings == 2

\* a []byte: nil, or a sequence of chunks of bytes
NilBytes == [isNil |-> TRUE, bytes |-> <<>>]
Bytes(b) == [isNil |-> FALSE, bytes |-> b]

\* a *Body: nil, new(Body), or a Body with its fields
NilBodyPtr == [isNil |-> TRUE, Fault |-> NoFault, InnerXML |-> NilBytes]
EmptyBody == [isNil |-> FALSE, Fault |-> NoFault, InnerXML |-> NilBytes]
SoapBody(fault, inner) == [isNil |-> FALSE, Fault |-> fault, InnerXML |-> inner]

\* a *Header: nil, or a Header whose Security is nil or not
NilHeaderPtr == [isNil |-> TRUE, Security |-> FALSE]
SoapHeader(security) == [isNil |-> FALSE, Security |-> security]

\* a map[string]string: nil, or a set of <<key, value>> pairs
NilMap == [isNil |-> TRUE, m |-> {}]
MapOf(m) == [isNil |-> FALSE, m |-> m]

\* new(soap.Envelope)
FreshEnvelope == [Namespaces |-> NilMap, Header |-> NilHeaderPtr, Body |-> NilBodyPtr]

\* an Envelope that was decoded into before
UsedEnvelope ==
    [Namespaces |-> MapOf({<<"tds", NamespaceDevice>>}),
     Header |-> NilHeaderPtr,
     Body |-> SoapBody(NoFault, Bytes(<<"<tds:GetServicesResponse/>">>))]

\* e.Namespaces[k] = v
MapSet(m, k, v) == {x \in m : x[1] # k} \cup {<<k, v>>}

\* strings.ToLower, on the strings of the model that have upper case letters
ToLower(str) ==
    IF str = "XMLNS" THEN "xmlns"
    ELSE IF str = "Sender not authorized" THEN "sender not authorized"
    ELSE str

\* the loop over start.Attr: every xmlns attribute is recorded, a later one
\* of the same name replacing an earlier one
RECURSIVE ReadAttrs(_, _, _)
ReadAttrs(m, attrs, i) ==
    IF i > Len(attrs) THEN m
    ELSE IF ToLower(attrs[i].Space) = "xmlns"
         THEN ReadAttrs(MapSet(m, attrs[i].Local, attrs[i].Value), attrs, i + 1)
         ELSE ReadAttrs(m, attrs, i + 1)

\* mutant of EnsureBody: the Body is left as it is
EnsureBody_Skip(e) == e

\* guarantee body is not nil
EnsureBody(e) == IF e.Body.isNil THEN [e EXCEPT !.Body = EmptyBody] ELSE e

\* what UnmarshalXML returns
Decoded(err, e) == [err |-> err, e |-> e]

\* mutant of AtEndElement: an envelope whose Body is still the empty one is
\* refused
AtEndElement_RequireBody(e) ==
    IF e.Body = EmptyBody THEN Decoded("no body", e) ELSE Decoded("nil", e)

\* case xml.EndElement: return nil
AtEndElement(e) == Decoded("nil", e)

\* A token d.Token() returns inside the root element.  For a Header or Body
\* start element, ok is whether d.DecodeElement succeeds on it; security is
\* whether a Header holds a Security element, fault and inner are the Fault
\* element and the raw inner bytes of a Body.
Token(kind, ok, security, fault, inner) ==
    [kind |-> kind, ok |-> ok, security |-> security, fault |-> fault, inner |-> inner]

\* the Fault element of a Body as DecodeElement fills it in
WireFault ==
    [present |-> TRUE, Code |-> "soapenv:Sender", SubCode |-> "ter:NotAuthorized",
     Reason |-> "Sender not authorized", Namespaces |-> NoNamespaces]

Tokens ==
    {Token("Header", FALSE, FALSE, NoFault, <<>>)}
    \cup {Token("Header", TRUE, security, NoFault, <<>>) : security \in BOOLEAN}
    \cup {Token("Body", FALSE, FALSE, NoFault, <<>>),
          Token("Body", TRUE, FALSE, NoFault, <<>>),
          Token("Body", TRUE, FALSE, NoFault, <<"<tds:GetServicesResponse/>">>),
          Token("Body", TRUE, FALSE, WireFault, <<"<Fault>">>)}
    \cup {Token(k, TRUE, FALSE, NoFault, <<>>) : k \in {"Other", "Space", "Text", "Comment"}}

TokenStreams == UNION {[1..n -> Tokens] : n \in 0..MaxTokens}

\* The for loop of UnmarshalXML over the tokens toks; closed is whether the
\* root's end element follows them (d.Token() fails after them if not).
RECURSIVE DecodeTokens(_, _, _, _)
DecodeTokens(e, toks, i, closed) ==
    IF i > Len(toks)
    THEN IF closed THEN AtEndElement(e) ELSE Decoded("could not decode token", e)
    ELSE LET t == toks[i]
         IN  IF t.kind = "Header"
             THEN IF t.ok
                  THEN DecodeTokens([e EXCEPT !.Header = SoapHeader(t.security)], toks, i + 1, closed)
                  ELSE Decoded("could not decode header", e)
             ELSE IF t.kind = "Body"
             THEN IF t.ok
                  THEN LET fault == IF t.fault.present
                                    THEN [t.fault EXCEPT !.Namespaces = e.Namespaces.m]
                                    ELSE NoFault
                       IN  DecodeTokens([e EXCEPT !.Body = SoapBody(fault, Bytes(t.inner))],
                                        toks, i + 1, closed)
                  ELSE Decoded("could not decode body", e)
             ELSE IF t.kind = "Other"
             THEN Decoded("unexpected token", e)
             ELSE IF t.kind = "Space"
             THEN DecodeTokens(e, toks, i + 1, closed)
             ELSE Decoded("unexpected token type", e)

\* e.UnmarshalXML(d, start), start.Attr being attrs
UnmarshalXML(e, attrs, toks, closed) ==
    LET made == IF e.Namespaces.isNil THEN {} ELSE e.Namespaces.m
        e1 == [e EXCEPT !.Namespaces = MapOf(ReadAttrs(made, attrs, 1))]
    IN  DecodeTokens(EnsureBody(e1), toks, 1, closed)

\* an attribute as the decoder hands it over
Attr(space, local, value) == [Space |-> space, Local |-> local, Value |-> value]

\* the attribute lists of the root elements that are decoded
RootAttrs ==
    {<<>>,
     <<Attr("xmlns", "soapenv", NamespaceEnvelope), Attr("xmlns", "ter", NamespaceONVIFError)>>,
     <<Attr("XMLNS", "env", NamespaceEnvelope), Attr("", "xmlns", NamespaceDevice)>>,
     <<Attr("xmlns", "env", NamespaceEnvelope), Attr("xmlns", "env", NamespaceDevice)>>}

\* xml.NewDecoder(...).Decode(e) reaches e.UnmarshalXML with a root element
Decode ==
    /\ soapOp = "none"
    /\ \E e \in {FreshEnvelope, UsedEnvelope}, attrs \in RootAttrs,
          toks \in TokenStreams, closed \in BOOLEAN :
         /\ soapOp' = "UnmarshalXML"
         /\ soapIn' = [e |-> e, attrs |-> attrs, toks |-> toks, closed |-> closed]
         /\ soapOut' = UnmarshalXML(e, attrs, toks, closed)
    /\ UNCHANGED doVars

\* the prefixes a caller binds in an Envelope that is encoded
CallerPrefixes == {"env", "tds", "ter"}
CallerURIs == {NamespaceEnvelope, NamespaceDevice}
CallerTables ==
    {t \in SUBSET (CallerPrefixes \X CallerURIs) :
        /\ Cardinality(t) <= MaxBindings
        /\ \A a, b \in t : a[1] = b[1] => a = b}

\* payloads a caller puts in a Body: none, an element, an element and a
\* text that is not XML
Payloads ==
    {NilBytes, Bytes(<<"<tds:GetServices/>">>), Bytes(<<"<tds:GetServices/>", "<a">>)}

\* the chunks of bytes that do not parse as XML content
WellFormed(bytes) == \A i \in 1..Len(bytes) : bytes[i] # "<a"

\* a Fault a caller puts in a Body
CallerFault ==
    [present |-> TRUE, Code |-> "env:Sender", SubCode |-> "ter:NotAuthorized",
     Reason |-> "Sender not authorized", Namespaces |-> NoNamespaces]

\* the Envelopes that are encoded
CallerEnvelopes ==
    [Namespaces : {MapOf(t) : t \in CallerTables},
     Header : {NilHeaderPtr, SoapHeader(FALSE), SoapHeader(TRUE)},
     Body : {NilBodyPtr} \cup {SoapBody(f, b) : f \in {NoFault, CallerFault}, b \in Payloads}]

\* an attribute as the encoder writes it: its name and its value
WireAttr(name, value) == [name |-> name, value |-> value]

\* mutant of StartAttrs: the envelope namespace is not declared
StartAttrs_NoEnv(e, order) ==
    [i \in 1..Len(order) |-> WireAttr("xmlns:" \o order[i][1], order[i][2])]

\* start.Attr of MarshalXML: xmlns:env, then one attribute for each binding
\* of e.Namespaces, in the order the range over the map yields them
StartAttrs(e, order) ==
    <<WireAttr("xmlns:env", NamespaceEnvelope)>>
    \o [i \in 1..Len(order) |-> WireAttr("xmlns:" \o order[i][1], order[i][2])]

\* enc.Encode(&body{Fault, InnerXML}): the Fault element, then the raw
\* bytes of InnerXML; what a decoder makes of the element that is written
EncodeBody(b) ==
    LET inner == (IF b.Fault.present THEN <<"<Fault>">> ELSE <<>>) \o b.InnerXML.bytes
    IN  Token("Body", WellFormed(inner), FALSE,
              IF b.Fault.present THEN [b.Fault EXCEPT !.Namespaces = NoNamespaces] ELSE NoFault,
              inner)

\* enc.Encode(&header{Security}), as a decoder reads it
EncodeHeader(h) == Token("Header", TRUE, h.Security, NoFault, <<>>)

\* e.MarshalXML(enc, start): the root's attributes and the elements in it
MarshalXML(e, order) ==
    [attrs |-> StartAttrs(e, order),
     toks |-> (IF e.Header.isNil THEN <<>> ELSE <<EncodeHeader(e.Header)>>)
              \o (IF e.Body.isNil THEN <<>> ELSE <<EncodeBody(e.Body)>>)]

\* the decoder's reading of an attribute name the encoder wrote: the part
\* before the colon is the Space, the part after it the Local
ParseAttr(a) ==
    LET p == CHOOSE p \in CallerPrefixes : a.name = "xmlns:" \o p
    IN  Attr("xmlns", p, a.value)

\* decode(encode(e)) into a new Envelope
RoundTrip ==
    /\ soapOp = "none"
    /\ \E e \in CallerEnvelopes : \E order \in Orders(e.Namespaces.m) :
         LET wire == MarshalXML(e, order)
             attrs == [i \in 1..Len(wire.attrs) |-> ParseAttr(wire.attrs[i])]
         IN  /\ soapOp' = "RoundTrip"
             /\ soapIn' = [e |-> e, order |-> order]
             /\ soapOut' = UnmarshalXML(FreshEnvelope, attrs, wire.toks, TRUE)
    /\ UNCHANGED doVars

\* what Body.Unmarshal returns: the error, the error it wraps, and whether
\* the decoder was run on the payload
Unmarshalled(err, wraps, decoded) == [err |-> err, wraps |-> wraps, decoded |-> decoded]

\* the values v a caller passes to Body.Unmarshal: a pointer to a struct
\* named as the payload's element, a pointer to a struct named otherwise,
\* and a struct passed by value
Targets == {"match", "mismatch", "nonpointer"}

\* xml.NewDecoder(bytes.NewBuffer(payload)).Decode(v): the first element of
\* the payload is read into v, what follows it is not read
DecodePayload(payload, v) ==
    IF v = "nonpointer" THEN "non-pointer passed to Unmarshal"
    ELSE IF Len(payload) = 0 THEN "EOF"
    ELSE IF ~WellFormed(<<payload[1]>>) THEN "syntax error"
    ELSE IF v = "mismatch" THEN "expected element type"
    ELSE "nil"

\* mutant of IsEmptyPayload: only a nil InnerXML counts as empty
IsEmptyPayload_NilOnly(inner) == inner.isNil

\* len(b.InnerXML) == 0
IsEmptyPayload(inner) == Len(inner.bytes) = 0

\* b.Unmarshal(v)
BodyUnmarshal(b, v) ==
    IF IsEmptyPayload(b.InnerXML)
    THEN Unmarshalled("body is empty", "ErrNoResponse", FALSE)
    ELSE LET err == DecodePayload(b.InnerXML.bytes, v)
         IN  IF err # "nil"
             THEN Unmarshalled("could not unmarshal", err, TRUE)
             ELSE Unmarshalled("nil", "nil", TRUE)

\* the Bodies Unmarshal is called on
UnmarshalBodies ==
    {SoapBody(f, b) :
        f \in {NoFault, WireFault},
        b \in {NilBytes, Bytes(<<>>), Bytes(<<"<tds:GetServicesResponse/>">>),
               Bytes(<<"<tds:GetServicesResponse/>", "<a">>), Bytes(<<"<a">>)}}

Unmarshal ==
    /\ soapOp = "none"
    /\ \E b \in UnmarshalBodies, v \in Targets :
         /\ soapOp' = "Unmarshal"
         /\ soapIn' = [b |-> b, v |-> v]
         /\ soapOut' = BodyUnmarshal(b, v)
    /\ UNCHANGED doVars

\* Package soap called on its own: NewSecurity

\* nonce := make([]byte, 16)
NonceLen == 16

typePassword ==
    "http://docs.oasis-open.org/wss/2004/01/oasis-200401-wss-username-token-profile-1.0#PasswordDigest"
typeNonce ==
    "http://docs.oasis-open.org/wss/2004/01/oasis-200401-wss-soap-message-security-1.0#Base64Binary"

\* []byte(str): the bytes of a string, as one chunk; no bytes for ""
BytesOf(str) == IF str = "" THEN <<>> ELSE <<str>>

\* sha1 of a sequence of bytes: a digest that stands for exactly those bytes
\* in that order
Sha1Sum(written) == [alg |-> "sha1", of |-> written]

\* base64.StdEncoding.EncodeToString
Base64(data) == [enc |-> "base64", of |-> data]

\* mutant of HashWrites: the password is hashed first
HashWrites_PasswordFirst(nonce, created, password) ==
    BytesOf(password) \o nonce \o BytesOf(created)

\* hash.Write(nonce); hash.Write([]byte(created)); hash.Write([]byte(password)):
\* what the hash has been fed when Sum is called
HashWrites(nonce, created, password) ==
    nonce \o BytesOf(created) \o BytesOf(password)

\* NewSecurity(username, password), rand.Read filling the nonce with the
\* bytes nonce (or failing) and time.Now() formatting to created
NewSecurity(username, password, randOK, nonce, created) ==
    IF ~randOK
    THEN [err |-> "could not generate nonce", token |-> <<>>]
    ELSE [err |-> "nil",
          token |-> [Username |-> username,
                     Password |-> [Type |-> typePassword,
                                   Password |-> Base64(Sha1Sum(HashWrites(nonce, created, password)))],
                     Nonce |-> [EncodingType |-> typeNonce, Nonce |-> Base64(nonce)],
                     Created |-> created]]

\* what rand.Read puts in the nonce, byte by byte
NonceValues ==
    {[i \in 1..NonceLen |-> "00"], [i \in 1..NonceLen |-> "ff"],
     [i \in 1..NonceLen |-> IF i % 2 = 0 THEN "a5" ELSE "5a"]}

\* what time.Now().UTC().Format("2006-01-02T15:04:05") gives
Timestamps == {"2024-05-01T10:00:00", "2024-05-01T10:00:01"}

MakeSecurity ==
    /\ soapOp = "none"
    /\ \E username \in {"admin"}, password \in {"", "secret"}, randOK \in BOOLEAN,
          nonce \in NonceValues, created \in Timestamps :
         /\ soapOp' = "NewSecurity"
         /\ soapIn' = [username |-> username, password |-> password, randOK |-> randOK,
                       nonce |-> nonce, created |-> created]
         /\ soapOut' = NewSecurity(username, password, randOK, nonce, created)
    /\ UNCHANGED doVars

SoapNext == Classify \/ Decode \/ RoundTrip \/ Unmarshal \/ MakeSecurity

SoapSpec == SoapInit /\ [][SoapNext]_vars

-----------------------------------------------------------------------------
(* Client.Do of client.go: one request, no negotiation *)

\* client.Post returned an error and no response
NoResponse == [err |-> TRUE, status401 |-> FALSE, readable |-> FALSE, body |-> NoBody]

\* what Do of client.go returns for the request req, rand.Read succeeding or
\* not, and the response resp to the one POST
DoResult(req, randOK, resp) ==
    IF CredsSet /\ ~randOK THEN ReturnError("security", 0)
    ELSE IF ~req.bodyOK THEN ReturnError("marshal", 0)
    ELSE IF ~req.envOK THEN ReturnError("encode", 0)
    ELSE IF ~req.urlOK THEN ReturnError("post", 0)
    ELSE IF resp.err THEN ReturnError("post", 1)
    ELSE IF Debug /\ ~resp.readable THEN ReturnError("read", 1)
    ELSE IF ~resp.body.valid
    THEN \* if body can't be parsed, make sure device didn't send HTTP 401
         IF resp.status401 THEN ReturnUnauthorizedStatus(1) ELSE ReturnError("decode", 1)
    ELSE IF resp.body.fault.present
    THEN IF ToLower(resp.body.fault.Reason) = "sender not authorized"
         THEN ReturnUnauthorizedFault(resp.body, 1)
         ELSE ReturnFault(resp.body, 1)
    ELSE ReturnEnvelope(resp.body, 1)

\* c.Do(r) of client.go, from the call to the return
Do ==
    /\ pc = "idle"
    /\ calls < MaxCalls
    /\ \E req \in Requests, randOK \in (IF CredsSet THEN BOOLEAN ELSE {TRUE}) :
       \E resp \in (IF req.bodyOK /\ req.envOK /\ req.urlOK /\ randOK
                    THEN Responses ELSE {NoResponse}) :
         LET res == DoResult(req, randOK, resp)
             posted == req.bodyOK /\ req.envOK /\ (CredsSet => randOK)
             answered == res.from = 1
         IN  /\ r' = req
             /\ result' = res
             /\ nonces' = IF CredsSet /\ randOK THEN nonces + 1 ELSE nonces
             /\ reqs' = IF posted
                        THEN <<[mode |-> AuthMode, security |-> CredsSet,
                                nonce |-> IF CredsSet THEN nonces + 1 ELSE 0,
                                transport |-> HTTPClient.Transport]>>
                        ELSE <<>>
             /\ resps' = IF answered
                         THEN <<Outcome(resp, resp.body.valid /\ (Debug => resp.readable),
                                        res.wraps = "fault")>>
                         ELSE <<>>
    /\ calls' = calls + 1
    /\ retries' = <<>>
    /\ entry' = [mode |-> AuthMode, client |-> HTTPClient]
    /\ attempt' = [mode |-> AuthMode, client |-> HTTPClient]
    /\ UNCHANGED <<clientVars, pc, installs, soapVars, sharedVars>>

\* a Client of either version of Do
BothNext == Next \/ Do

BothSpec == Init /\ [][BothNext]_vars

-----------------------------------------------------------------------------
(* Client.Do called from several goroutines on one Client *)

\* A call is at one of these places.  Between two of them it reads or
\* writes c.AuthMode, c.HTTPClient or c.HTTPClient.Transport at most once
\* after a test of the same field, so that a test and the assignment it
\* guards are two steps.
\*   "idle"        not in Do
\*   "setClient"   c.HTTPClient == nil was true, c.HTTPClient not yet assigned
\*   "auth"        before the switch on c.AuthMode
\*   "install"     in case AuthModeDigest, the type test failed, Transport
\*                 not yet assigned
\*   "built"       past the switch, before c.HTTPClient.Do
\*   "waiting"     in c.HTTPClient.Do
\*   "set401"      c.AuthMode != AuthModeDigest was true, AuthMode not yet
\*                 assigned
\*   "install401"  AuthMode assigned, the type test failed, Transport not
\*                 yet assigned
\*   "setWSS"      c.AuthMode == AuthModeNone was true, AuthMode not yet
\*                 assigned
Places ==
    {"idle", "setClient", "auth", "install", "built", "waiting", "set401",
     "install401", "setWSS"}

\* the call of p moves to place
Goes(p, place) == procs' = [procs EXCEPT ![p] = place]

\* a call has returned: a Client used by one goroutine is shared from now on
Finished(h) ==
    IF h.phase = "solo"
    THEN [h EXCEPT !.phase = "shared", !.soloDone = TRUE, !.exposed = AuthMode]
    ELSE h

\* p assigns c.AuthMode
WroteMode(h, p) ==
    [h EXCEPT !.modeWrites = @ + 1,
              !.racedMode = IF \E q \in Procs \ {p} : procs[q] \in {"set401", "setWSS"}
                            THEN @ \cup {p} ELSE @]

\* p assigns a digest.Transport to c.HTTPClient.Transport
WroteTransport(h, p) ==
    [h EXCEPT !.installers = @ \cup {p},
              !.overwrote = @ \/ IsDigestTransport(HTTPClient.Transport)]

\* the Client of the overlapping calls: any AuthMode, with or without
\* credentials, any HTTPClient, Debug off; used by one goroutine first, or
\* shared at once
SharedInit ==
    /\ AuthMode \in AuthModes
    /\ Username \in {"", "admin"}
    /\ Password = "secret"
    /\ HTTPClient \in {NilClient, ClientWith(CustomTransport), ClientWith(CallerDigestTransport)}
    /\ Debug = FALSE
    /\ pc = "idle"
    /\ r = NoRequest
    /\ reqs = <<>>
    /\ resps = <<>>
    /\ retries = <<>>
    /\ result = NoResult
    /\ entry = [mode |-> AuthMode, client |-> HTTPClient]
    /\ attempt = [mode |-> AuthMode, client |-> HTTPClient]
    /\ calls = 0
    /\ nonces = 0
    /\ installs = 0
    /\ NoSoapCall
    /\ procs = [p \in Procs |-> "idle"]
    /\ \E phase \in {"solo", "shared"} : hist = History(phase, AuthMode)

\* what the overlapping calls leave alone
callVars == <<pc, r, reqs, resps, retries, result, entry, attempt, calls, nonces, soapVars>>

\* p calls c.Do(r), or Do calls itself: if c.HTTPClient == nil
Enters(p) == Goes(p, IF HTTPClient.isNil THEN "setClient" ELSE "auth")

\* A goroutine calls Do.  While the Client is not shared only goroutine 1
\* does.
StartCall(p) ==
    /\ procs[p] = "idle"
    /\ hist.phase = "solo" => (p = 1)
    /\ Enters(p)
    /\ UNCHANGED <<clientVars, installs, hist, callVars>>

\* c.HTTPClient = &http.Client{}
SetClient(p) ==
    /\ procs[p] = "setClient"
    /\ HTTPClient' = ClientWith(NoTransport)
    /\ Goes(p, "auth")
    /\ UNCHANGED <<AuthMode, Username, Password, Debug, installs, hist, callVars>>

\* set auth params: the switch on c.AuthMode, up to the type test of the
\* Transport in case AuthModeDigest
Auth(p) ==
    /\ procs[p] = "auth"
    /\ IF InvalidSecurityType
       THEN Goes(p, "idle") /\ hist' = Finished(hist)
       ELSE IF InstallsOnBuild(HTTPClient)
       THEN Goes(p, "install") /\ UNCHANGED hist
       ELSE Goes(p, "built") /\ UNCHANGED hist
    /\ UNCHANGED <<clientVars, installs, callVars>>

\* c.HTTPClient.Transport = &digest.Transport{...}
Install(p) ==
    /\ procs[p] = "install"
    /\ HTTPClient' = ClientWith(FreshDigestTransport)
    /\ installs' = installs + 1
    /\ hist' = WroteTransport(hist, p)
    /\ Goes(p, "built")
    /\ UNCHANGED <<AuthMode, Username, Password, Debug, callVars>>

\* From the switch to c.HTTPClient.Do: NewSecurity, the marshalling or
\* http.NewRequest fails and Do returns, or the request is sent.
Send(p) ==
    /\ procs[p] = "built"
    /\ \E sent \in BOOLEAN :
         IF sent
         THEN Goes(p, "waiting") /\ UNCHANGED hist
         ELSE Goes(p, "idle") /\ hist' = Finished(hist)
    /\ UNCHANGED <<clientVars, installs, callVars>>

\* where a call goes when c.HTTPClient.Do returns resp, unauth being what
\* IsUnauthorizedError returns for its Fault: to an escalation whose test of
\* c.AuthMode it has passed, or out of Do
AnswerPlace(resp, unauth) ==
    IF resp.err \/ (Debug /\ ~resp.readable) THEN "idle"
    ELSE IF resp.status401
    THEN IF EscalatesToDigest THEN "set401" ELSE "idle"
    ELSE IF resp.body.valid /\ resp.body.fault.present /\ unauth /\ EscalatesToWSSecurity
    THEN "setWSS"
    ELSE "idle"

\* the places the responses of the model lead to
AnswerPlaces ==
    UNION {{AnswerPlace(resp, unauth) :
               unauth \in (IF resp.body.valid /\ resp.body.fault.present
                           THEN IsUnauthorizedError(resp.body.fault) ELSE {FALSE})} :
           resp \in Responses}

\* c.HTTPClient.Do returns: Do returns, or an escalation passes its test of
\* c.AuthMode.
Answer(p) ==
    /\ procs[p] = "waiting"
    /\ \E place \in AnswerPlaces :
         /\ Goes(p, place)
         /\ hist' = IF place = "idle" THEN Finished(hist) ELSE hist
    /\ UNCHANGED <<clientVars, installs, callVars>>

\* c.AuthMode = AuthModeDigest, then the type test of the Transport
Set401(p) ==
    /\ procs[p] = "set401"
    /\ AuthMode' = ModeAfter401
    /\ hist' = WroteMode(hist, p)
    /\ IF InstallsOn401(HTTPClient.Transport) THEN Goes(p, "install401") ELSE Enters(p)
    /\ UNCHANGED <<Username, Password, HTTPClient, Debug, installs, callVars>>

\* c.HTTPClient.Transport = d, then return c.Do(r)
Install401(p) ==
    /\ procs[p] = "install401"
    /\ HTTPClient' = ClientWith(SeededDigestTransport)
    /\ installs' = installs + 1
    /\ hist' = WroteTransport(hist, p)
    /\ Goes(p, "auth")
    /\ UNCHANGED <<AuthMode, Username, Password, Debug, callVars>>

\* c.AuthMode = AuthModeWSSecurity, then return c.Do(r)
SetWSS(p) ==
    /\ procs[p] = "setWSS"
    /\ AuthMode' = ModeAfterFault
    /\ hist' = WroteMode(hist, p)
    /\ Enters(p)
    /\ UNCHANGED <<Username, Password, HTTPClient, Debug, installs, callVars>>

SharedNext ==
    \E p \in Procs :
        \/ StartCall(p)
        \/ SetClient(p)
        \/ Auth(p)
        \/ Install(p)
        \/ Send(p)
        \/ Answer(p)
        \/ Set401(p)
        \/ Install401(p)
        \/ SetWSS(p)

SharedSpec == SharedInit /\ [][SharedNext]_vars

-----------------------------------------------------------------------------
(* Client.Do past the Debug hook *)

\* what an attempt does with a response: whether Do is entered again, the
\* AuthMode and the transport it leaves, and what is returned if it returns
Handled(retry, mode, transport, res) ==
    [retry |-> retry, mode |-> mode, transport |-> transport, env |-> res.env,
     err |-> res.err, wraps |-> res.wraps, body |-> res.body]

\* Do from the return of c.HTTPClient.Do on, the two if c.Debug blocks left
\* out: the response resp is handled on its status and its decoded body
\* alone, unauth being what IsUnauthorizedError returns for its Fault.
WithoutDebug(resp, unauth) ==
    LET t == HTTPClient.Transport
        n == Len(resps) + 1
    IN  IF resp.err
        THEN Handled(FALSE, AuthMode, t, ReturnError("post", n))
        ELSE IF resp.status401
        THEN IF EscalatesToDigest
             THEN Handled(TRUE, ModeAfter401, TransportAfter401(t), NoResult)
             ELSE Handled(FALSE, AuthMode, t, ReturnUnauthorizedStatus(n))
        ELSE IF ~resp.body.valid
        THEN Handled(FALSE, AuthMode, t, ReturnError("decode", n))
        ELSE IF resp.body.fault.present
        THEN IF unauth
             THEN IF EscalatesToWSSecurity
                  THEN Handled(TRUE, ModeAfterFault, t, NoResult)
                  ELSE Handled(FALSE, AuthMode, t, ReturnUnauthorizedFault(resp.body, n))
             ELSE Handled(FALSE, AuthMode, t, ReturnFault(resp.body, n))
        ELSE Handled(FALSE, AuthMode, t, ReturnEnvelope(resp.body, n))

-----------------------------------------------------------------------------
(* Properties of the negotiation, one call at a time *)

Sent == Len(reqs)

\* number of times the call in progress has taken the retry path `path`
Taken(path) == Cardinality({i \in 1..Len(retries) : retries[i] = path})

\* the outcome of the latest attempt that got as far as the POST
LastOutcome == resps[Len(resps)]

\* a response that was decoded to an envelope without a Fault
FaultFree(o) ==
    ~o.err /\ ~o.status401 /\ o.decoded /\ ~o.body.fault.present

\* a response that was decoded to an envelope whose Fault was classified unauthorized
UnauthorizedFault(o) ==
    ~o.err /\ ~o.status401 /\ o.decoded /\ o.body.fault.present /\ o.unauth

\* a response with status 401
Status401(o) == ~o.err /\ o.status401

\* Do returned (envelope, nil), the envelope being that of response number n
ReturnedEnvelopeOf(n) ==
    /\ result.returned /\ result.env /\ result.err = "nil"
    /\ result.from = n /\ result.body = resps[n].body

\* Do returned (nil, *UnauthorizedError) for response number n, wrapping the
\* HTTP status ("status") or the Fault of the response ("fault")
ReturnedUnauthorized(n, wraps) ==
    /\ result.returned /\ ~result.env /\ result.err = "unauthorized"
    /\ result.wraps = wraps /\ result.from = n
    /\ wraps = "fault" => result.body = resps[n].body

\* Do returned (nil, the Fault of response number n)
ReturnedFaultOf(n) ==
    /\ result.returned /\ ~result.env /\ result.err = "fault"
    /\ result.wraps = "none" /\ result.from = n /\ result.body = resps[n].body

\* C1 as stated: with credentials configured, one call to Do sends at most 2
\* requests, the original and one retransmission.
C1_AtMostTwoRequests == CredsSet => Sent <= 2

\* C1 as amended: with credentials configured, one call to Do sends at most 3
\* requests, the original and one retransmission per retry path; it sends 3
\* only when the call started in AuthMode None and took the unauthorized-fault
\* retry and then the HTTP-401 retry, and at most 2 in every other case.
C1_AtMostTwoRetries ==
    CredsSet =>
        /\ Sent <= 3
        /\ Sent <= Len(retries) + 1
        /\ Sent = 3 => entry.mode = AuthModeNone /\ retries = <<"fault", "401">>

C1_Witness ==
    CredsSet /\ Sent = 3 /\ pc = "idle" /\ result.returned

\* C2: within one call each retry path is taken at most once: the HTTP-401
\* path (AuthMode := Digest, re-send) at most once and the unauthorized-fault
\* path (AuthMode := WSSecurity, re-send) at most once.
C2_EachPathAtMostOnce ==
    Taken("401") <= 1 /\ Taken("fault") <= 1

C2_Witness ==
    Taken("401") = 1 /\ Taken("fault") = 1 /\ pc = "idle" /\ result.returned

\* C3: a call never loops: from every initial AuthMode, with or without
\* credentials and whatever the server answers, it sends at most 3 requests,
\* takes at most 2 retries, and once it is over it has returned.
C3_BoundedCall ==
    /\ Sent <= 3
    /\ Len(resps) <= Sent
    /\ Len(retries) <= 2
    /\ (pc = "idle" /\ calls > 0) => result.returned

\* a server that refuses every request: unauthorized fault, then 401, then 401
C3_Witness ==
    /\ pc = "idle" /\ result.returned /\ Sent = 3
    /\ UnauthorizedFault(resps[1]) /\ Status401(resps[2]) /\ Status401(resps[3])
    /\ result.err = "unauthorized"

\* C4: AuthMode never regresses: every change Do makes to AuthMode is one of
\* None->Digest, None->WSSecurity, WSSecurity->Digest; so AuthMode never
\* returns to None and never leaves Digest.
C4_NoRegression ==
    [][/\ AuthMode' # AuthMode =>
            <<AuthMode, AuthMode'>> \in {<<AuthModeNone, AuthModeDigest>>,
                                         <<AuthModeNone, AuthModeWSSecurity>>,
                                         <<AuthModeWSSecurity, AuthModeDigest>>}
       /\ AuthMode # AuthModeNone => AuthMode' # AuthModeNone
       /\ AuthMode = AuthModeDigest => AuthMode' = AuthModeDigest]_vars

\* a second call that found the Client at WSSecurity and raised it to Digest
C4_Witness ==
    calls = 2 /\ entry.mode = AuthModeWSSecurity /\ AuthMode = AuthModeDigest
    /\ retries = <<"401">>

\* C5: happy path: if the first response is not a 401 and decodes to an
\* envelope without a Fault, Do has sent exactly 1 request, returns that
\* envelope with a nil error and leaves AuthMode as it was.
C5_HappyPath ==
    (Len(resps) >= 1 /\ FaultFree(resps[1])) =>
        /\ pc = "idle"
        /\ Sent = 1
        /\ ReturnedEnvelopeOf(1)
        /\ AuthMode = entry.mode

C5_Witness ==
    /\ Len(resps) >= 1 /\ FaultFree(resps[1])
    /\ CredsSet /\ entry.mode = AuthModeNone /\ AuthMode = AuthModeNone
    /\ result.env

\* C6: digest escalation: with credentials configured and AuthMode None or
\* WSSecurity, if the first response is a 401 and the second a fault-free
\* envelope, Do has set AuthMode to Digest, sent exactly 2 requests and
\* returns the second response's envelope.
C6_DigestEscalation ==
    (/\ CredsSet
     /\ entry.mode \in {AuthModeNone, AuthModeWSSecurity}
     /\ Len(resps) >= 2
     /\ Status401(resps[1])
     /\ FaultFree(resps[2])) =>
        /\ pc = "idle"
        /\ AuthMode = AuthModeDigest
        /\ Sent = 2
        /\ retries = <<"401">>
        /\ ReturnedEnvelopeOf(2)

C6_Witness ==
    /\ CredsSet /\ entry.mode = AuthModeWSSecurity
    /\ Len(resps) = 2 /\ Status401(resps[1]) /\ FaultFree(resps[2])
    /\ AuthMode = AuthModeDigest /\ result.env

\* C7: WS-Security escalation: with credentials configured and AuthMode None,
\* if the first response is a non-401 envelope whose Fault is classified
\* unauthorized and the second a fault-free envelope, Do has set AuthMode to
\* WSSecurity, sent exactly 2 requests, the first without a Security header
\* and the second with one, and returns the second envelope.
C7_WSSecurityEscalation ==
    (/\ CredsSet
     /\ entry.mode = AuthModeNone
     /\ Len(resps) >= 2
     /\ UnauthorizedFault(resps[1])
     /\ FaultFree(resps[2])) =>
        /\ pc = "idle"
        /\ AuthMode = AuthModeWSSecurity
        /\ Sent = 2
        /\ ~reqs[1].security
        /\ reqs[2].security
        /\ ReturnedEnvelopeOf(2)

C7_Witness ==
    /\ CredsSet /\ entry.mode = AuthModeNone
    /\ Len(resps) = 2 /\ UnauthorizedFault(resps[1]) /\ FaultFree(resps[2])
    /\ reqs[2].security /\ result.env

\* C8: no further escalation on 401: when a request gets a 401 while AuthMode
\* is already Digest or credentials are not configured, Do sends no further
\* request and returns an UnauthorizedError at once, and that step changes
\* neither AuthMode nor the installed transport.
C8_NoFurtherEscalation ==
    (/\ Len(resps) >= 1
     /\ Len(resps) = Sent
     /\ Status401(LastOutcome)
     /\ (reqs[Sent].mode = AuthModeDigest \/ ~CredsSet)) =>
        /\ pc = "idle"
        /\ ReturnedUnauthorized(Sent, "status")
        /\ AuthMode = reqs[Sent].mode
        /\ HTTPClient.Transport = reqs[Sent].transport

\* C9: an unauthorized fault escalates only from None: when a decoded
\* response carries a Fault classified unauthorized and AuthMode is not None
\* or credentials are not configured, Do sends no further request, returns an
\* UnauthorizedError wrapping that Fault and leaves AuthMode as it was.
C9_FaultEscalatesOnlyFromNone ==
    (/\ Len(resps) >= 1
     /\ Len(resps) = Sent
     /\ UnauthorizedFault(LastOutcome)
     /\ (reqs[Sent].mode # AuthModeNone \/ ~CredsSet)) =>
        /\ pc = "idle"
        /\ ReturnedUnauthorized(Sent, "fault")
        /\ AuthMode = reqs[Sent].mode

\* the retry made after the WS-Security escalation is refused as well
C9_Witness ==
    /\ CredsSet /\ retries = <<"fault">> /\ Sent = 2
    /\ Len(resps) = 2 /\ UnauthorizedFault(resps[2])
    /\ reqs[2].mode = AuthModeWSSecurity
    /\ result.err = "unauthorized" /\ result.wraps = "fault"

\* an attempt ended in a transport error
TransportFailed == Len(resps) >= 1 /\ Len(resps) = Sent /\ LastOutcome.err

\* an attempt ended in a response-decode error
DecodeFailed ==
    /\ Len(resps) >= 1 /\ Len(resps) = Sent
    /\ ~LastOutcome.err /\ ~LastOutcome.status401 /\ ~LastOutcome.body.valid
    /\ (Debug => LastOutcome.readable)

\* an attempt ended in a decoded Fault that is not classified unauthorized
OtherFault ==
    /\ Len(resps) >= 1 /\ Len(resps) = Sent
    /\ ~LastOutcome.err /\ ~LastOutcome.status401 /\ LastOutcome.decoded
    /\ LastOutcome.body.fault.present /\ ~LastOutcome.unauth

\* an attempt ended in a request-marshal error
MarshalFailed == pc = "idle" /\ result.err = "marshal"

NonAuthFailure == TransportFailed \/ DecodeFailed \/ OtherFault \/ MarshalFailed

\* the failure is returned at once: no further request, a non-nil error (the
\* Fault itself for a Fault), AuthMode as the attempt found it
PropagatesAtOnce ==
    /\ pc = "idle"
    /\ result.returned /\ ~result.env /\ result.err # "nil"
    /\ Len(resps) = Sent
    /\ OtherFault => ReturnedFaultOf(Sent)
    /\ AuthMode = attempt.mode

\* C10 as stated: a transport error, a request-marshal error, a
\* response-decode error or a Fault not classified unauthorized is returned at
\* once and never retried, and the attempt changes neither AuthMode nor the
\* installed transport.
C10_FailureChangesNothing ==
    NonAuthFailure =>
        /\ PropagatesAtOnce
        /\ HTTPClient.Transport = attempt.client.Transport

\* C10 as amended: such a failure is returned at once and never retried, and
\* the attempt does not change AuthMode; it changes the installed transport
\* only when it is built with AuthMode Digest, credentials configured and no
\* digest wrapper installed: it then installs a new digest wrapper before the
\* request is marshalled, and the failure leaves that wrapper installed.
C10_FailurePropagates ==
    NonAuthFailure =>
        /\ PropagatesAtOnce
        /\ HTTPClient.Transport =
              IF /\ CredsSet
                 /\ attempt.mode = AuthModeDigest
                 /\ ~IsDigestTransport(attempt.client.Transport)
              THEN FreshDigestTransport
              ELSE attempt.client.Transport

\* a Digest-mode attempt that installed the wrapper and then failed to POST
C10_Witness ==
    /\ TransportFailed /\ CredsSet /\ attempt.mode = AuthModeDigest
    /\ attempt.client.Transport = CustomTransport
    /\ HTTPClient.Transport = FreshDigestTransport
    /\ result.err = "post"

-----------------------------------------------------------------------------
(* Properties of the authentication of requests, over successive calls *)

\* C11: a request's envelope carries a Security header if and only if, when
\* the attempt was built, AuthMode was WSSecurity and credentials were
\* configured; no request built at None or Digest carries one.
C11_SecurityIffWSSecurity ==
    \A i \in 1..Len(reqs) :
        reqs[i].security <=> (reqs[i].mode = AuthModeWSSecurity /\ CredsSet)

\* one call with credentials that sent a request in each of the three modes
C11_Witness ==
    /\ CredsSet /\ Sent = 3
    /\ reqs[1].mode = AuthModeNone /\ ~reqs[1].security
    /\ reqs[2].mode = AuthModeWSSecurity /\ reqs[2].security
    /\ reqs[3].mode = AuthModeDigest /\ ~reqs[3].security

\* C12: with credentials configured, every request sent while AuthMode is
\* Digest goes through a digest wrapper, which is the Client's transport, and
\* every request sent while AuthMode is WSSecurity carries a Security header;
\* AuthMode never goes back to None, so once it has left None no request is
\* sent without one of the two.
C12_AuthenticatedAfterEscalation ==
    [][CredsSet =>
        /\ AuthMode # AuthModeNone => AuthMode' # AuthModeNone
        /\ Len(reqs') = Len(reqs) + 1 =>
             LET q == reqs'[Len(reqs')]
             IN  /\ AuthMode = AuthModeDigest =>
                       /\ IsDigestTransport(q.transport)
                       /\ HTTPClient'.Transport = q.transport
                 /\ AuthMode = AuthModeWSSecurity => q.security
                 /\ AuthMode # AuthModeNone =>
                       IsDigestTransport(q.transport) \/ q.security]_vars

\* a second call on a Client that an earlier call raised to Digest
C12_Witness ==
    /\ CredsSet /\ calls = 2 /\ entry.mode = AuthModeDigest
    /\ entry.client.Transport = SeededDigestTransport
    /\ Sent = 1 /\ reqs[1].transport = SeededDigestTransport

\* C13: Do installs the digest wrapper at most once, and once a digest
\* wrapper is the Client's transport it stays so for every later call: Do
\* never replaces or removes it.
C13_InstalledOnce ==
    [][/\ installs' <= 1
       /\ IsDigestTransport(HTTPClient.Transport) =>
             /\ HTTPClient'.Transport = HTTPClient.Transport
             /\ installs' = installs
       /\ HTTPClient'.Transport # HTTPClient.Transport =>
             /\ IsDigestTransport(HTTPClient'.Transport)
             /\ installs' = installs + 1]_vars

\* a later call sends its request through the wrapper an earlier call installed
C13_Witness ==
    /\ calls = 2 /\ installs = 1
    /\ IsDigestTransport(entry.client.Transport)
    /\ entry.client.Transport # CallerDigestTransport
    /\ Sent >= 1 /\ reqs[1].transport = entry.client.Transport
    /\ HTTPClient.Transport = entry.client.Transport

-----------------------------------------------------------------------------
(* Properties of Fault.IsUnauthorizedError *)

\* the prefixes the table of f binds to the namespace ns
PrefixesOf(f, ns) == {e[1] : e \in {x \in f.Namespaces : x[2] = ns}}

\* C14: when the fault's table binds the envelope namespace to exactly one
\* prefix P and the ONVIF error namespace to exactly one prefix Q, the result
\* is true if and only if Code is "P:Sender" and SubCode is "Q:NotAuthorized";
\* the Reason text plays no part.
C14_ClassifiedByCodeAndSubCode ==
    soapOp = "IsUnauthorizedError" =>
        LET f == soapIn.fault
            P == PrefixesOf(f, NamespaceEnvelope)
            Q == PrefixesOf(f, NamespaceONVIFError)
        IN  (Cardinality(P) = 1 /\ Cardinality(Q) = 1) =>
                (soapOut <=> \E pp \in P, q \in Q :
                                /\ f.Code = pp \o ":Sender"
                                /\ f.SubCode = q \o ":NotAuthorized")

\* soapenv:Sender / ter:NotAuthorized is unauthorized whatever the Reason says
C14_Witness ==
    /\ soapOp = "IsUnauthorizedError"
    /\ soapIn.fault.Namespaces = NsStandard
    /\ soapIn.fault.Code = "soapenv:Sender"
    /\ soapIn.fault.SubCode = "ter:NotAuthorized"
    /\ soapIn.fault.Reason = ""
    /\ soapOut = TRUE

\* C15: the result is false for every Code and SubCode whenever the fault's
\* table has no prefix for the envelope namespace or none for the ONVIF error
\* namespace.
C15_FalseWithoutPrefix ==
    soapOp = "IsUnauthorizedError" =>
        LET f == soapIn.fault
        IN  (\/ PrefixesOf(f, NamespaceEnvelope) = {}
             \/ PrefixesOf(f, NamespaceONVIFError) = {}) => soapOut = FALSE

-----------------------------------------------------------------------------
(* Properties of Envelope.UnmarshalXML *)

\* the decoded root element has no Body element
NoBodyElement ==
    \A i \in 1..Len(soapIn.toks) : soapIn.toks[i].kind # "Body"

\* C16: after every successful decode of an Envelope the Body is non-nil,
\* with or without Header, Body element or Fault, so that Do can dereference
\* env.Body.
C16_BodyNeverNil ==
    (soapOp = "UnmarshalXML" /\ soapOut.err = "nil") => ~soapOut.e.Body.isNil

\* an empty root element decoded into a new Envelope
C16_Witness ==
    /\ soapOp = "UnmarshalXML" /\ soapOut.err = "nil"
    /\ soapIn.e = FreshEnvelope /\ soapIn.toks = <<>>
    /\ ~soapOut.e.Body.isNil

-----------------------------------------------------------------------------
(* Properties of the round trip and of Body.Unmarshal *)

\* the bindings of the Envelope that was encoded
SentBindings == soapIn.e.Namespaces.m

\* the Envelope that was encoded binds the prefix env itself
BindsEnv == \E x \in SentBindings : x[1] = "env"

\* C18 as stated: for every envelope with a Body and any bindings,
\* decode(encode(e)) has exactly e's namespace bindings and exactly e's Body
\* payload bytes.
C18_RoundTripExact ==
    (soapOp = "RoundTrip" /\ ~soapIn.e.Body.isNil) =>
        /\ soapOut.err = "nil"
        /\ soapOut.e.Namespaces.m = SentBindings
        /\ soapOut.e.Body.InnerXML.bytes = soapIn.e.Body.InnerXML.bytes

\* C18 as amended: for every envelope e with a Body whose payload is
\* well-formed XML, decode(encode(e)) succeeds; its bindings are e's
\* bindings and, unless e binds the prefix env itself, the binding of env to
\* the envelope namespace that the encoder declares; its payload bytes are
\* e's payload bytes, preceded by the encoded Fault when e has a Fault.
C18_RoundTripAddsEnv ==
    (soapOp = "RoundTrip" /\ ~soapIn.e.Body.isNil) =>
        /\ soapOut.err = "nil" <=> WellFormed(soapIn.e.Body.InnerXML.bytes)
        /\ soapOut.err = "nil" =>
              /\ soapOut.e.Namespaces.m =
                    SentBindings \cup
                       (IF BindsEnv THEN {} ELSE {<<"env", NamespaceEnvelope>>})
              /\ soapOut.e.Body.InnerXML.bytes =
                    (IF soapIn.e.Body.Fault.present THEN <<"<Fault>">> ELSE <<>>)
                       \o soapIn.e.Body.InnerXML.bytes
              /\ soapOut.e.Body.Fault.present = soapIn.e.Body.Fault.present

\* an envelope binding tds with a payload and a Fault went round
C18_Witness ==
    /\ soapOp = "RoundTrip" /\ soapOut.err = "nil"
    /\ SentBindings = {<<"tds", NamespaceDevice>>}
    /\ soapIn.e.Body.Fault.present
    /\ soapIn.e.Body.InnerXML.bytes = <<"<tds:GetServices/>">>
    /\ <<"env", NamespaceEnvelope>> \in soapOut.e.Namespaces.m
    /\ Len(soapOut.e.Body.InnerXML.bytes) = 2

\* C19: Body.Unmarshal on a Body with zero payload bytes returns an error
\* wrapping ErrNoResponse without running the decoder; on every Body it
\* returns nil or an error.
C19_EmptyBodyIsErrNoResponse ==
    soapOp = "Unmarshal" =>
        /\ Len(soapIn.b.InnerXML.bytes) = 0 =>
              /\ soapOut.err # "nil"
              /\ soapOut.wraps = "ErrNoResponse"
              /\ ~soapOut.decoded
        /\ soapOut.err \in {"nil", "body is empty", "could not unmarshal"}
        /\ soapOut.err = "nil" <=> soapOut.wraps = "nil"

\* Unmarshal was called on a Body whose InnerXML is empty but not nil
C19_Witness ==
    /\ soapOp = "Unmarshal"
    /\ ~soapIn.b.InnerXML.isNil /\ Len(soapIn.b.InnerXML.bytes) = 0
    /\ soapOut.wraps = "ErrNoResponse"

-----------------------------------------------------------------------------
(* Properties of what Do returns, in both versions of Do *)

\* C20: Do returns either an envelope and no error, or no envelope and an
\* error; every envelope it returns is the decoded body of the response it
\* answers and has no Fault, so that a response carrying a Fault reaches the
\* caller as an error only.
C20_FaultIsAlwaysAnError ==
    result.returned =>
        /\ result.env <=> result.err = "nil"
        /\ result.env =>
              /\ ~result.body.fault.present
              /\ result.from \in 1..Len(resps)
              /\ resps[result.from].body = result.body
        /\ (Len(resps) >= 1 /\ resps[Len(resps)].decoded
              /\ resps[Len(resps)].body.fault.present) => ~result.env

\* a decoded response carrying a Fault was answered with an error
C20_Witness ==
    /\ result.returned
    /\ Len(resps) >= 1 /\ resps[Len(resps)].decoded
    /\ resps[Len(resps)].body.fault.present
    /\ ~result.env /\ result.err = "fault"

-----------------------------------------------------------------------------
(* Properties of the Debug hook *)

\* what IsUnauthorizedError can return for the Fault of the response o
Classifications(o) ==
    IF o.body.valid /\ o.body.fault.present
    THEN IsUnauthorizedError(o.body.fault) ELSE {FALSE}

\* the step does what h says
HandledAs(h) ==
    /\ (pc' = "enter") = h.retry
    /\ AuthMode' = h.mode
    /\ HTTPClient'.Transport = h.transport
    /\ ~h.retry =>
          /\ result'.returned
          /\ result'.env = h.env
          /\ result'.err = h.err
          /\ result'.wraps = h.wraps
          /\ result'.body = h.body

\* C21: the Debug hook does not alter the negotiation: every attempt, with
\* Debug on or off, handles the response it receives as Do without the hook
\* handles it: same decision to send again, same AuthMode, same transport,
\* same envelope or error.
C21_DebugChangesNothing ==
    [][pc = "waiting" =>
          LET o == resps'[Len(resps')]
          IN  \E unauth \in Classifications(o) :
                 HandledAs(WithoutDebug(o, unauth))]_vars

\* the same, for the responses whose body can be read to its end
C21_DebugChangesNothingReadable ==
    [][(pc = "waiting" /\ resps'[Len(resps')].readable) =>
          LET o == resps'[Len(resps')]
          IN  \E unauth \in Classifications(o) : HandledAs(WithoutDebug(o, unauth))]_vars

-----------------------------------------------------------------------------
(* Properties of calls that overlap on one Client *)

\* no step assigns c.AuthMode or installs a digest.Transport
NoSharedWrite ==
    /\ hist'.modeWrites = hist.modeWrites
    /\ installs' = installs
    /\ AuthMode' = AuthMode
    /\ HTTPClient'.Transport = HTTPClient.Transport

\* C22 as stated: once one call to Do has returned on a Client, later
\* overlapping calls never assign AuthMode and never install the transport
\* wrapper, whatever the server answers.
C22_NoWriteAfterFirstCall ==
    [][hist.soloDone => NoSharedWrite]_vars

\* C22 as amended: once one call to Do has returned on a Client and left it
\* with AuthMode Digest, or on a Client without both credentials, later
\* overlapping calls never assign AuthMode and never install the transport
\* wrapper, whatever the server answers.
C22_NoWriteOnceConverged ==
    [][(hist.soloDone /\ (hist.exposed = AuthModeDigest \/ ~CredsSet)) => NoSharedWrite]_vars

\* a call alone escalated to Digest; two later calls overlap in
\* c.HTTPClient.Do
C22_Witness ==
    /\ hist.soloDone /\ hist.exposed = AuthModeDigest /\ CredsSet
    /\ hist.modeWrites = 1 /\ installs = 1
    /\ procs[1] = "waiting" /\ procs[2] = "waiting"

\* C23: overlapping calls on a Client that was shared before it converged
\* race.  Whenever a call has assigned AuthMode between another call's test
\* and assignment, the Client has credentials and was shared with AuthMode
\* None or WSSecurity; whenever a call has replaced the digest wrapper of
\* another, the Client has credentials, was shared before a call made alone
\* had returned or with AuthMode None or WSSecurity, and two calls have
\* installed a wrapper.  Both happen from AuthMode None with credentials.
C23_RacesOnUnconvergedClient ==
    /\ hist.racedMode # {} =>
          /\ CredsSet
          /\ hist.exposed \in {AuthModeNone, AuthModeWSSecurity}
          /\ hist.modeWrites >= 1
    /\ hist.overwrote =>
          /\ CredsSet
          /\ ~hist.soloDone \/ hist.exposed \in {AuthModeNone, AuthModeWSSecurity}
          /\ installs >= 2
          /\ Cardinality(hist.installers) >= 2

\* two calls on a Client shared with AuthMode None: each assigned AuthMode
\* between the other's test and assignment, each installed the wrapper, and
\* the second replaced the first
C23_Witness ==
    /\ ~hist.soloDone /\ hist.exposed = AuthModeNone /\ CredsSet
    /\ hist.racedMode = {1, 2}
    /\ hist.installers = {1, 2}
    /\ hist.overwrote
    /\ installs = 2

-----------------------------------------------------------------------------
(* Properties of the Security header of the requests *)

\* C24: the Security block is built fresh for every attempt: an attempt in
\* WSSecurity mode invokes NewSecurity once, the request it sends carries the
\* nonce of that invocation, which no request before it carried, and an
\* attempt in another mode invokes nothing and sends no nonce.
C24_SecurityBuiltFresh ==
    [][Len(reqs') = Len(reqs) + 1 =>
          LET q == reqs'[Len(reqs')]
          IN  /\ q.security =>
                    /\ nonces' = nonces + 1
                    /\ q.nonce = nonces'
                    /\ \A i \in 1..Len(reqs) : reqs[i].nonce < q.nonce
              /\ ~q.security => (q.nonce = 0 /\ nonces' = nonces)]_vars

\* the second call sends a request with the second nonce drawn
C24_Witness ==
    /\ calls = 2
    /\ Len(reqs) >= 1
    /\ reqs[Len(reqs)].security
    /\ reqs[Len(reqs)].nonce = 2
    /\ nonces = 2

-----------------------------------------------------------------------------
(* Properties of NewSecurity *)

\* C25: the password digest of the token is the base64 of one SHA-1 over
\* the nonce bytes, then the timestamp bytes, then the password bytes; the
\* nonce is 16 bytes and is the one the token holds in base64, the timestamp
\* is the one the token holds; the token holds the user name, the digest
\* with its type, the nonce and the timestamp and nothing else, so never
\* the password.
C25_DigestOfNonceCreatedPassword ==
    (soapOp = "NewSecurity" /\ soapOut.err = "nil") =>
        LET tok == soapOut.token
            pw == IF soapIn.password = "" THEN <<>> ELSE <<soapIn.password>>
        IN  /\ Len(soapIn.nonce) = 16
            /\ tok.Nonce.Nonce = [enc |-> "base64", of |-> soapIn.nonce]
            /\ tok.Created = soapIn.created
            /\ tok.Password.Password =
                  [enc |-> "base64",
                   of |-> [alg |-> "sha1",
                           of |-> soapIn.nonce \o <<soapIn.created>> \o pw]]
            /\ tok.Password.Type = typePassword
            /\ tok.Nonce.EncodingType = typeNonce
            /\ tok.Username = soapIn.username
            /\ DOMAIN tok = {"Username", "Password", "Nonce", "Created"}
            /\ DOMAIN tok.Password = {"Type", "Password"}

\* a token was built for the password "secret"
C25_Witness ==
    /\ soapOp = "NewSecurity" /\ soapOut.err = "nil"
    /\ soapIn.password = "secret"
    /\ soapIn.nonce[2] = "a5"
    /\ soapOut.token.Password.Password.of.of[NonceLen + 2] = "secret"

-----------------------------------------------------------------------------
(* Properties of the installed transport and of a failed retry *)

\* C26: the digest wrapper is installed around the Client's transport: in a
\* call made with a caller-supplied transport that is no digest.Transport,
\* every request sent through a digest wrapper still passes through the
\* caller's transport underneath it.
C26_WrapperKeepsCallerTransport ==
    \A i \in 1..Len(reqs) :
        (entry.client.Transport = CustomTransport /\ IsDigestTransport(reqs[i].transport))
            => reqs[i].transport.inner = "custom"

\* the response is no fault-free envelope
Failure(o) ==
    \/ o.err
    \/ Debug /\ ~o.readable
    \/ o.status401
    \/ ~o.body.valid
    \/ o.body.fault.present

\* the AuthMode the last escalation of the call has set
Escalated == IF retries[Len(retries)] = "401" THEN AuthModeDigest ELSE AuthModeWSSecurity

\* the step returns an error and leaves AuthMode and the transport alone
ReturnsErrorKeeping(mode) ==
    /\ pc' = "idle"
    /\ result'.returned /\ ~result'.env /\ result'.err # "nil"
    /\ AuthMode' = mode
    /\ HTTPClient'.Transport = HTTPClient.Transport

\* C27 as stated: when Do has escalated AuthMode and the retransmitted
\* request fails in any way, Do returns the error and AuthMode and the
\* transport keep the escalated value.
C27_FailedRetryReturnsAndKeeps ==
    [][(pc = "waiting" /\ Len(retries) >= 1 /\ Failure(resps'[Len(resps')])) =>
          (AuthMode = Escalated /\ ReturnsErrorKeeping(Escalated))]_vars

\* C27 as amended: the escalated AuthMode is in place while the retry is in
\* flight; when the retry fails, Do returns the error and AuthMode and the
\* transport keep the escalated value, except that an HTTP 401 answering
\* the WSSecurity retry escalates once more, to Digest with the wrapper
\* installed, and sends the request again; after a 401 escalation the wrapper
\* stays installed.
C27_FailedRetryKeepsEscalation ==
    [][(pc = "waiting" /\ Len(retries) >= 1 /\ Failure(resps'[Len(resps')])) =>
          LET o == resps'[Len(resps')]
              again == /\ retries[Len(retries)] = "fault"
                       /\ ~o.err /\ o.status401 /\ (Debug => o.readable)
          IN  /\ AuthMode = Escalated
              /\ IF again
                 THEN /\ pc' = "enter"
                      /\ retries' = Append(retries, "401")
                      /\ AuthMode' = AuthModeDigest
                      /\ IsDigestTransport(HTTPClient'.Transport)
                 ELSE ReturnsErrorKeeping(Escalated)
              /\ retries[Len(retries)] = "401" => IsDigestTransport(HTTPClient'.Transport)]_vars

\* a call escalated from None to WSSecurity, the retry failed in the
\* transport, and the Client is left in WSSecurity
C27_Witness ==
    /\ pc = "idle" /\ result.returned
    /\ entry.mode = AuthModeNone
    /\ retries = <<"fault">>
    /\ Len(resps) = 2 /\ resps[2].err
    /\ result.err = "post"
    /\ AuthMode = AuthModeWSSecurity

-----------------------------------------------------------------------------
(* Properties of the order Fault.IsUnauthorizedError visits the table in *)

\* C28: for a fixed Code, SubCode and namespace table the result is the
\* same in whatever order the entries of the table are visited, also when
\* the table binds two or more prefixes to the envelope namespace or to the
\* ONVIF error namespace.
C28_SameResultInEveryOrder ==
    soapOp = "IsUnauthorizedError" =>
        \A order \in Orders(soapIn.fault.Namespaces) :
            IsUnauthorizedErrorIn(soapIn.fault, order) = soapOut

====
